---- MODULE Spec2Model ----
(***************************************************************************)
(* Turn scheduling and conversation state of the multi-agent chat relay    *)
(* (src/server.js, class MultiAgentChatServer).                            *)
(*                                                                         *)
(* One action per callback the Node event loop can run: the synchronous    *)
(* part of start(), the listen callback, the 500 ms initial-message timer, *)
(* a socket 'humanMessage' event, the auto-conversation timer callback,    *)
(* the continuation of the Promise.race of a generation attempt (won by    *)
(* the agent's call or by the timeout), the late settling of the loser of  *)
(* a race, stop() and the process exit.  These make Spec.  CommandSpec     *)
(* adds the /focus command of src/command.js and the 500 ms timer it sets, *)
(* FocusSpec has it over the running server,                               *)
(* RoundtableSpec and ConsensusSpec the /roundtable and the /consensus     *)
(* command with the turns they drive, over the running server (its timer   *)
(* and its attempts; human messages, late results and the shutdown are the *)
(* subject of Spec).                                                       *)
(* A handler runs to its first await without interleaving, so each action  *)
(* is the whole handler.  Handlers are operators over a record of the      *)
(* fields they write (State), composed as the source composes its calls.   *)
(*                                                                         *)
(* ViewerSpec has the viewers that connect and a caller that appends what  *)
(* is not a message, SaveSpec the idle-save timer, RoleSpec the /role      *)
(* command, ShutdownSpec the steps of the shutdown, of a failed start and  *)
(* of a crash, one callback each.  DelaySpec arms the auto timer with     *)
(* every value its random wait can take.                                   *)
(*                                                                         *)
(* Not modelled: the text of messages (a content class stands for it),     *)
(* wall-clock time (a timer that is pending may fire at any moment; the    *)
(* stamp of a message, its order number, stands for its timestamp), the    *)
(* text of a role description and the file roles.json.                     *)
(***************************************************************************)
EXTENDS Integers, Sequences, FiniteSets, TLC

\* ------------------------------------------------------------------ bounds
\* this.maxHistory: 150 in the source, scaled down so that eviction happens.
maxHistory == 2
\* Math.random() is drawn from {0/RandDen, ..., (RandDen-1)/RandDen}.
RandDen == 1
\* The timers of one kind of command (/focus, /roundtable, /consensus) that may
\* be pending at once: a command is not sent while that many of its timers wait.
MaxPending == 1
\* ChatAgent.addToHistory drops the oldest entry of a history longer than this:
\* 50 in the source, scaled down with maxHistory (a history holds one more).
HistoryCap == 0
\* handleConnection sends the last RecentCount messages: 50 in the source,
\* scaled down with maxHistory.
RecentCount == 1
\* DelaySpec draws Math.random() from {0/DrawDen, ..., (DrawDen-1)/DrawDen}.
DrawDen == 128

\* ------------------------------------------------------------- constants
MinDelay == 8000
MaxDelay == 20000
\* this.autoConversationTimer = null
Null == 0
\* scheduleAutoConversation() called without forcedDelay
Undefined == -1

\* error.message.substring(0, 100)
ErrCap == 100
\* `Timeout after ${this.responseTimeout / 1000}s`, responseTimeout 25000
TimeoutTextLen == 17
\* "Cannot read properties of null (reading 'message')": what the engine throws
\* when an adapter's catch block reads .message of a thrown null
TypeErrorTextLen == 51

\* The ghost sequence number of a message counts accepted appends modulo
\* SeqMod; SeqMod > maxHistory keeps the numbers in the store distinct.
SeqMod == maxHistory + 1

AgentSlots == <<"Gemini", "Llama", "Qwen">>
AgentNames == {"Gemini", "Llama", "Qwen"}

VARIABLES
    phase,                  \* "constructed", "started", "listening", "stopping",
                            \* "closing" (the HTTP server is closing), "exited"
    agents,                 \* Object.keys(this.agents), in insertion order
    initTimer,              \* the 500 ms timer of the initial System message is pending
    messages,               \* this.messages
    nextSeq,                \* ghost: accepted appends so far, modulo SeqMod
    conversationActive,     \* this.conversationActive
    isGenerating,           \* this.isGenerating
    typingAgents,           \* this.typingAgents
    autoConversationTimer,  \* this.autoConversationTimer: a timer id or Null
    timers,                 \* pending auto-conversation timers: [id, wait]
    inflight,               \* attempts awaiting their Promise.race, by agent name
    abandonedCalls,         \* a generateResponse call that lost its race may be pending
    focusTimers,            \* pending 500 ms timers of /focus commands, counted per agent
    roundtableMode,         \* chatServer.roundtableMode
    consensusMode,          \* chatServer.consensusMode
    driverTimers,           \* pending timers of the overlays' drivers, counted per overlay
    awaiting,               \* the overlay whose driver awaits the attempt in flight
    available,              \* the agents whose provider client could be initialised
    histories,              \* agent.history of every registered agent
    saveTimer,              \* this.saveTimer: a timer id or Null
    saveTimers,             \* pending idle-save timers: [id, armedAt]
    files,                  \* the snapshot files on disk
    agentRoles,             \* agentRoles of src/command.js: who has a custom role
    exitCode,               \* <<>> while the process lives, then <<its exit code>>
    emitted,                \* ghost: the events the last step emitted, in order
    saveFailed,             \* ghost: a write of the last step threw and was logged
    lastSummary,            \* ghost: the positions the last step's summary enumerates
    lastStep,               \* ghost: the handler that ran in the last step
    lastError,              \* ghost: the error the last step caught, and how much it shows
    commandResult,          \* ghost: what the command of the last step returned
    triggerResult           \* ghost: how the triggerAIResponse call of the last step ended

vars == <<phase, agents, initTimer, messages, nextSeq, conversationActive,
          isGenerating, typingAgents, autoConversationTimer, timers,
          inflight, abandonedCalls, focusTimers, roundtableMode, consensusMode,
          driverTimers, awaiting, available, histories, saveTimer, saveTimers,
          files, agentRoles, exitCode, emitted, saveFailed, lastSummary, lastStep,
          lastError,
          commandResult, triggerResult>>

Range(f) == {f[i] : i \in DOMAIN f}
Last(q) == q[Len(q)]
RemoveAt(q, i) == [j \in 1..(Len(q) - 1) |-> IF j < i THEN q[j] ELSE q[j + 1]]

\* --------------------------------------------------------------- messages
ChatMessage(sender, content) == [sender |-> sender, content |-> content]
IsChatMessage(m) == DOMAIN m = {"sender", "content"}

\* const agentTypes, and the lookup agentTypes[sender] || 'system'
agentTypes ==
    [System |-> "system", Human |-> "human", Gemini |-> "gemini", Llama |-> "llama",
     Qwen |-> "qwen"]
senderType(sender) ==
    IF sender \in DOMAIN agentTypes THEN agentTypes[sender] ELSE "system"

\* Mutant of toJSON: the timestamp is left out.
toJSONNoTimestamp(m) ==
    [sender |-> m.sender, content |-> m.content, senderType |-> senderType(m.sender)]

\* ChatMessage.toJSON(); the stamp of a message stands for its timestamp.
toJSON(m) ==
    [sender |-> m.sender, content |-> m.content, timestamp |-> m.seq,
     senderType |-> senderType(m.sender)]

\* this.messages.map(msg => msg.toJSON())
Snapshot(msgs) == [i \in 1..Len(msgs) |-> toJSON(msgs[i])]

\* JSON.stringify of an array of objects: each object becomes its members, a key
\* and a value each, in the order toJSON wrote them; a member that is undefined
\* is left out.
KeyOrder == <<"sender", "content", "timestamp", "senderType">>
stringifyObject(r) ==
    LET keys == SelectSeq(KeyOrder, LAMBDA k : k \in DOMAIN r)
    IN [i \in 1..Len(keys) |-> [key |-> keys[i], value |-> r[keys[i]]]]
JSONstringify(rs) == [i \in 1..Len(rs) |-> stringifyObject(rs[i])]

\* JSON.parse of such a text: every list of members becomes an object again.
parseObject(members) ==
    [k \in {members[i].key : i \in DOMAIN members} |->
        (CHOOSE m \in Range(members) : m.key = k).value]
JSONparse(text) == [i \in 1..Len(text) |-> parseObject(text[i])]

\* A message built again from a record of a snapshot:
\* new ChatMessage(record.sender, record.content, record.timestamp), where the
\* constructor takes Date.now() for a timestamp that is undefined.
reconstruct(record, now) ==
    [sender |-> record.sender, content |-> record.content,
     seq |-> IF "timestamp" \in DOMAIN record THEN record.timestamp ELSE now]

\* The store built again from the text of a snapshot file.
restore(text, now) ==
    LET records == JSONparse(text)
    IN [i \in 1..Len(records) |-> reconstruct(records[i], now)]

\* this.io.emit(event, data), and socket.emit(event, data) for one viewer
emit(s, to, event, data) ==
    [s EXCEPT !.emitted = Append(@, [to |-> to, event |-> event, data |-> data])]

\* No error was caught: nothing of an error text is shown.
NoError == [caught |-> FALSE, len |-> 0, shown |-> 0]

\* chatServer.roundtableMode and chatServer.consensusMode before a command sets
\* them: no overlay.
NoRoundtable == [active |-> FALSE, agents |-> <<>>, currentIndex |-> 0]
NoConsensus == [active |-> FALSE, agents |-> <<>>, currentIndex |-> 0, responses |-> <<>>]

\* No summary was written in the step.
NoSummary == [emitted |-> FALSE, entries |-> <<>>]

\* The fields the handlers write, as one value, at the entry of a handler.
State ==
    [messages |-> messages, nextSeq |-> nextSeq,
     conversationActive |-> conversationActive, isGenerating |-> isGenerating,
     typingAgents |-> typingAgents, autoConversationTimer |-> autoConversationTimer,
     timers |-> timers, inflight |-> inflight,
     roundtableMode |-> roundtableMode, consensusMode |-> consensusMode,
     driverTimers |-> driverTimers, awaiting |-> awaiting, focusTimers |-> focusTimers,
     histories |-> histories, saveTimer |-> saveTimer, saveTimers |-> saveTimers,
     files |-> files, agentRoles |-> agentRoles, exitCode |-> exitCode,
     emitted |-> <<>>, saveFailed |-> FALSE, lastSummary |-> NoSummary, lastError |-> NoError, commandResult |-> "none",
     triggerResult |-> "none"]

Install(s) ==
    /\ messages' = s.messages
    /\ nextSeq' = s.nextSeq
    /\ conversationActive' = s.conversationActive
    /\ isGenerating' = s.isGenerating
    /\ typingAgents' = s.typingAgents
    /\ autoConversationTimer' = s.autoConversationTimer
    /\ timers' = s.timers
    /\ inflight' = s.inflight
    /\ roundtableMode' = s.roundtableMode
    /\ consensusMode' = s.consensusMode
    /\ driverTimers' = s.driverTimers
    /\ awaiting' = s.awaiting
    /\ focusTimers' = s.focusTimers
    /\ histories' = s.histories
    /\ saveTimer' = s.saveTimer
    /\ saveTimers' = s.saveTimers
    /\ files' = s.files
    /\ agentRoles' = s.agentRoles
    /\ exitCode' = s.exitCode
    /\ emitted' = s.emitted
    /\ saveFailed' = s.saveFailed
    /\ lastSummary' = s.lastSummary
    /\ commandResult' = s.commandResult
    /\ lastError' = s.lastError
    /\ triggerResult' = s.triggerResult

\* Mutants of enforceMaxHistory: no eviction; eviction of the newest message.
enforceMaxHistoryNever(msgs) == msgs
enforceMaxHistoryNewest(msgs) ==
    IF Len(msgs) > maxHistory THEN SubSeq(msgs, 1, Len(msgs) - 1) ELSE msgs

\* if (this.messages.length > this.maxHistory) this.messages.shift()
enforceMaxHistory(msgs) ==
    IF Len(msgs) > maxHistory THEN Tail(msgs) ELSE msgs

\* ----------------------------------------------------------------- timers
clearTimeout(ts, handle) == {t \in ts : t.id # handle}

NewTimerId(ts) ==
    CHOOSE i \in 1..(Cardinality(ts) + 1) :
        /\ \A t \in ts : t.id # i
        /\ \A j \in 1..(i - 1) : \E t \in ts : t.id = j

\* ------------------------------------------------------------ the store
\* ChatAgent.addToHistory(message)
addToHistory(history, message) ==
    Append(IF Len(history) > HistoryCap THEN Tail(history) ELSE history, message)

\* Mutant of resetSaveTimer: the pending timer is not cleared.
resetSaveTimerNoClear(s) ==
    LET id == NewTimerId(s.saveTimers)
    IN [s EXCEPT !.saveTimers = @ \cup {[id |-> id, armedAt |-> s.nextSeq]},
                 !.saveTimer = id]

\* resetSaveTimer(); armedAt is a ghost: the appends accepted when it was armed.
resetSaveTimer(s) ==
    LET cleared == clearTimeout(s.saveTimers, s.saveTimer)
        id == NewTimerId(cleared)
    IN [s EXCEPT !.saveTimers = cleared \cup {[id |-> id, armedAt |-> s.nextSeq]},
                 !.saveTimer = id]

\* Mutants of addMessage: the validity of the message is tested after the store
\* was written; the message is broadcast twice.
addMessageLateCheck(s, message) ==
    LET stamped == [sender |-> message.sender, content |-> message.content,
                    seq |-> s.nextSeq]
        stored == [s EXCEPT !.messages = enforceMaxHistory(Append(s.messages, stamped)),
                            !.nextSeq = (s.nextSeq + 1) % SeqMod]
    IN IF ~IsChatMessage(message) THEN stored
       ELSE resetSaveTimer(emit([stored EXCEPT !.histories =
                                     [a \in DOMAIN @ |-> addToHistory(@[a], stamped)]],
                                "all", "newMessage", toJSON(stamped)))
addMessageTwice(s, message) ==
    IF ~IsChatMessage(message) THEN s
    ELSE LET stamped == [sender |-> message.sender, content |-> message.content,
                         seq |-> s.nextSeq]
             stored == [s EXCEPT !.messages = enforceMaxHistory(Append(s.messages, stamped)),
                                 !.nextSeq = (s.nextSeq + 1) % SeqMod,
                                 !.histories =
                                     [a \in DOMAIN @ |-> addToHistory(@[a], stamped)]]
         IN resetSaveTimer(emit(emit(stored, "all", "newMessage", toJSON(stamped)),
                                "all", "newMessage", toJSON(stamped)))

addMessage(s, message) ==
    IF ~IsChatMessage(message) THEN s
    ELSE LET stamped == [sender |-> message.sender, content |-> message.content,
                         seq |-> s.nextSeq]
             stored == [s EXCEPT !.messages = enforceMaxHistory(Append(s.messages, stamped)),
                                 !.nextSeq = (s.nextSeq + 1) % SeqMod,
                                 !.histories =
                                     [a \in DOMAIN @ |-> addToHistory(@[a], stamped)]]
         IN resetSaveTimer(emit(stored, "all", "newMessage", toJSON(stamped)))

\* ------------------------------------------------- the auto-conversation timer

\* Math.floor(Math.random() * (max - min) + min), Math.random() = u / RandDen
\* Mutant of RandomWaitAt: the width of the interval is taken to be its maximum.
RandomWaitAtWide(num, den) == ((num * MaxDelay) \div den) + MinDelay

\* The same for Math.random() = num / den
RandomWaitAt(num, den) == ((num * (MaxDelay - MinDelay)) \div den) + MinDelay

RandomWait(u) == RandomWaitAt(u, RandDen)

RandDraws == 0..(RandDen - 1)

\* Mutant of scheduleAutoConversation: only a forced delay arms the timer.
scheduleAutoConversationForcedOnly(s, forcedDelay, u) ==
    LET cleared == [s EXCEPT !.timers = clearTimeout(s.timers, s.autoConversationTimer),
                             !.autoConversationTimer = Null]
    IN IF ~cleared.conversationActive \/ Len(agents) = 0 \/ forcedDelay = Undefined
       THEN cleared
       ELSE [cleared EXCEPT !.timers = @ \cup {[id |-> NewTimerId(cleared.timers),
                                                wait |-> forcedDelay]},
                            !.autoConversationTimer = NewTimerId(cleared.timers)]

\* Mutant of clearAutoTimer: the handle is reset, the timer is left pending.
clearAutoTimerHandleOnly(s) == [s EXCEPT !.autoConversationTimer = Null]

\* The timer is cleared and the handle reset before the early return.
clearAutoTimer(s) ==
    [s EXCEPT !.timers = clearTimeout(s.timers, s.autoConversationTimer),
              !.autoConversationTimer = Null]

scheduleAutoConversation(s, forcedDelay, u) ==
    CHOOSE after \in
        {IF ~cleared.conversationActive \/ Len(agents) = 0 THEN cleared
         ELSE LET waitTime == IF forcedDelay # Undefined THEN forcedDelay
                              ELSE RandomWait(u)
                  id == NewTimerId(cleared.timers)
              IN [cleared EXCEPT !.timers = @ \cup {[id |-> id, wait |-> waitTime]},
                                 !.autoConversationTimer = id] :
         cleared \in {clearAutoTimer(s)}} : TRUE

\* The arming of scheduleAutoConversation() without a forced delay, for
\* Math.random() = num / den.
armRandom(s, num, den) ==
    LET cleared == clearAutoTimer(s)
        id == NewTimerId(cleared.timers)
    IN [cleared EXCEPT !.timers = @ \cup {[id |-> id, wait |-> RandomWaitAt(num, den)]},
                       !.autoConversationTimer = id]

\* ----------------------------------------------------------------- agents
\* Mutant of addAgent: the agent is added whether or not it is functional.
addAgentAlways(registry, name, functional) == Append(registry, name)

\* addAgent: an agent whose provider client was not initialised is not added.
addAgent(registry, name, functional) ==
    IF ~functional THEN registry ELSE Append(registry, name)

\* What the provider's API call does within the timeout.
ProviderBehaviours ==
    {"text", "whitespace", "empty", "prefixOnly", "malformed", "error", "badThrow",
     "longThrow"}

\* A settled promise: fulfilled with a text, or rejected with an error whose
\* message has len characters.
Resolve(content) == [kind |-> "resolve", content |-> content, len |-> 0]
Reject(len) == [kind |-> "reject", content |-> "diagnostic", len |-> len]

\* The adapters' catch blocks return a text; they throw in turn only when reading
\* the caught value fails: the engine's TypeError (badThrow), or whatever a
\* message accessor of the caught value throws, here a long text (longThrow).
AdapterRejection(p) ==
    IF p = "longThrow" THEN Reject(ErrCap + 1) ELSE Reject(TypeErrorTextLen)

\* GeminiAgent.generateResponse: the settled value of the returned promise.
GeminiGenerate(p) ==
    CASE p \in {"text", "prefixOnly"} -> Resolve("reply")
      [] p \in {"whitespace", "empty"} -> Resolve("placeholder")
      [] p \in {"malformed", "error"} -> Resolve("apology")
      [] OTHER -> AdapterRejection(p)

\* LlamaAgent.generateResponse
LlamaGenerate(p) ==
    CASE p \in {"text", "prefixOnly"} -> Resolve("reply")
      [] p = "whitespace" -> Resolve("placeholder")
      [] p \in {"empty", "malformed", "error"} -> Resolve("apology")
      [] OTHER -> AdapterRejection(p)

\* QwenAgent.generateResponse: a reply that is only the "Qwen:" prefix is cut to "".
QwenGenerate(p) ==
    CASE p = "text" -> Resolve("reply")
      [] p = "prefixOnly" -> Resolve("")
      [] p = "whitespace" -> Resolve("placeholder")
      [] p \in {"empty", "malformed", "error"} -> Resolve("apology")
      [] OTHER -> AdapterRejection(p)

generateResponse(agentName, p) ==
    CASE agentName = "Gemini" -> GeminiGenerate(p)
      [] agentName = "Llama" -> LlamaGenerate(p)
      [] OTHER -> QwenGenerate(p)

\* The values an agent's call can settle with.
Outcomes(agentName) == {generateResponse(agentName, p) : p \in ProviderBehaviours}

\* new Promise((_, reject) => setTimeout(() => reject(new Error("Timeout ...")), ...))
TimeoutRejection == Reject(TimeoutTextLen)

\* -------------------------------------------------------- triggerAIResponse
\* Mutant of LockHeld: the lock is never checked.
LockHeldNever(s) == FALSE

\* if (this.isGenerating) return false
LockHeld(s) == s.isGenerating

\* Mutant of LastSender: the first message is read instead of the last.
LastSenderFirst(msgs) == IF Len(msgs) > 0 THEN msgs[1].sender ELSE "null"

\* this.messages[this.messages.length - 1].sender, null for an empty store
LastSender(msgs) == IF Len(msgs) > 0 THEN Last(msgs).sender ELSE "null"

\* Mutant of SameSpeaker: the trigger never skips.
SameSpeakerNever(s, agentName) == FALSE

\* if (aiAgentNames.length > 1 && lastMessage && lastMessage.sender === agentName)
SameSpeaker(s, agentName) ==
    Len(agents) > 1 /\ LastSender(s.messages) = agentName

\* Mutant of setTyping: an agent that stops typing stays in the set.
setTypingKeeps(s, agentName, isTyping) ==
    LET set == [s EXCEPT !.typingAgents =
                    IF isTyping THEN @ \cup {agentName} ELSE @]
    IN IF isTyping
       THEN emit(set, "all", "typingStatus", set.typingAgents)
       ELSE set

\* setTyping: add or delete the name, and emit typingStatus when `changed` is
\* truthy (Set.add returns the set, Set.delete whether the name was present).
setTyping(s, agentName, isTyping) ==
    LET changed == (agentName \in s.typingAgents) # isTyping
        set == [s EXCEPT !.typingAgents =
                    IF isTyping THEN @ \cup {agentName} ELSE @ \ {agentName}]
    IN IF changed \/ isTyping
       THEN emit(set, "all", "typingStatus", set.typingAgents)
       ELSE set

\* Mutant of triggerAIResponse: a trigger that finds the lock held re-arms the timer.
triggerAIResponseRearms(s, agentName, u) ==
    IF LockHeld(s)
    THEN [scheduleAutoConversation(s, 2000, u) EXCEPT !.triggerResult = "dropped"]
    ELSE IF agentName \notin Range(agents)
    THEN [scheduleAutoConversation(s, 1000, u) EXCEPT !.triggerResult = "invalid"]
    ELSE IF SameSpeaker(s, agentName)
    THEN [scheduleAutoConversation(s, 100, u) EXCEPT !.triggerResult = "skipped"]
    ELSE [setTyping(s, agentName, TRUE) EXCEPT
              !.isGenerating = TRUE,
              !.inflight = Append(@, agentName),
              !.triggerResult = "acquired"]

\* The part of triggerAIResponse that runs before its await.
triggerAIResponse(s, agentName, u) ==
    IF LockHeld(s) THEN [s EXCEPT !.triggerResult = "dropped"]
    ELSE IF agentName \notin Range(agents)
    THEN [scheduleAutoConversation(s, 1000, u) EXCEPT !.triggerResult = "invalid"]
    ELSE IF SameSpeaker(s, agentName)
    THEN [scheduleAutoConversation(s, 100, u) EXCEPT !.triggerResult = "skipped"]
    ELSE [setTyping(s, agentName, TRUE) EXCEPT
              !.isGenerating = TRUE,
              !.inflight = Append(@, agentName),
              !.triggerResult = "acquired"]

\* Mutant of IsUsableResponse: every fulfilled value counts as a reply.
IsUsableResponseAny(content) == TRUE

\* response && typeof response === 'string' && response.trim().length > 0
IsUsableResponse(content) == content # ""

\* Mutant of substring: the text is not cut.
substringWhole(len, from, to) == len

\* The length of text.substring(from, to) for a text of len characters, from <= to.
substring(len, from, to) ==
    LET end == IF to < len THEN to ELSE len
    IN IF from < end THEN end - from ELSE 0

\* The try and catch blocks after the race settled with `outcome`.
raceBody(s, agentName, outcome) ==
    IF outcome.kind = "resolve"
    THEN IF IsUsableResponse(outcome.content)
         THEN addMessage(s, ChatMessage(agentName, outcome.content))
         ELSE s
    ELSE [addMessage(s, ChatMessage("System", outcome.content)) EXCEPT
              !.lastError = [caught |-> TRUE, len |-> outcome.len,
                             shown |-> substring(outcome.len, 0, ErrCap)]]

\* Mutant of raceFinally: the lock is released but the next turn is not scheduled.
raceFinallyNoRearm(s, i, u) ==
    [setTyping(s, s.inflight[i], FALSE) EXCEPT
         !.isGenerating = FALSE,
         !.inflight = RemoveAt(@, i)]

\* The finally block.
raceFinally(s, i, u) ==
    CHOOSE after \in
        {IF released.conversationActive
         THEN scheduleAutoConversation(released, Undefined, u)
         ELSE released :
         released \in {[setTyping(s, s.inflight[i], FALSE) EXCEPT
                            !.isGenerating = FALSE,
                            !.inflight = RemoveAt(@, i)]}} : TRUE

\* Mutant of raceSettled: the release sits in the try block, not in a finally.
raceSettledNoFinally(s, i, outcome, u) ==
    IF outcome.kind = "reject" THEN raceBody(s, s.inflight[i], outcome)
    ELSE raceFinally(raceBody(s, s.inflight[i], outcome), i, u)

\* The continuation of attempt i's await Promise.race([...]).
raceSettled(s, i, outcome, u) ==
    CHOOSE after \in {raceFinally(body, i, u) :
                         body \in {raceBody(s, s.inflight[i], outcome)}} : TRUE

\* Mutant of lateSettled: the late result is handled like the winner's.
lateSettledAppends(s, agentName, outcome) == raceBody(s, agentName, outcome)

\* A call of agentName that settles after its race was lost: Promise.race has
\* settled already and no continuation runs.
lateSettled(s, agentName, outcome) == s

\* Math.floor(Math.random() * n): an index below n, r standing for the draw.
RandomIndex(r, n) == r % n

\* ------------------------------------------------------- handleHumanInput
\* Mutant of HumanCandidates: the speaker before the human is left out.
HumanCandidatesFiltered(s) ==
    LET before == IF Len(s.messages) > 1 THEN s.messages[Len(s.messages) - 1].sender
                  ELSE "null"
        filtered == SelectSeq(agents, LAMBDA name : name # before)
    IN IF Len(filtered) = 0 THEN agents ELSE filtered

\* const aiAgents = Object.keys(this.agents): every registered agent may answer
HumanCandidates(s) == agents

\* Mutant of handleHumanInput: the timer is cleared and no agent is triggered.
handleHumanInputNoTrigger(s, r, u) ==
    LET added == addMessage(s, ChatMessage("Human", "human"))
        active == [added EXCEPT !.conversationActive = TRUE]
    IN [active EXCEPT !.timers = clearTimeout(@, active.autoConversationTimer),
                      !.autoConversationTimer = Null]

handleHumanInput(s, r, u) ==
    LET added == addMessage(s, ChatMessage("Human", "human"))
        active == [added EXCEPT !.conversationActive = TRUE]
        cleared == [active EXCEPT
                        !.timers = clearTimeout(@, active.autoConversationTimer),
                        !.autoConversationTimer = Null]
        aiAgents == HumanCandidates(cleared)
    IN IF Len(aiAgents) > 0
       THEN triggerAIResponse(cleared, aiAgents[RandomIndex(r, Len(aiAgents)) + 1], u)
       ELSE scheduleAutoConversation(cleared, Undefined, u)

\* ------------------------------------------------ the auto timer's callback
\* aiAgentNames.filter(name => name !== lastSpeaker), all of them when none is left
AvailableAgents(s) ==
    LET filtered == SelectSeq(agents, LAMBDA name : name # LastSender(s.messages))
    IN IF Len(filtered) = 0 THEN agents ELSE filtered

\* Mutant of timerCallback: a timer that fires during a generation re-arms with
\* the random wait.
timerCallbackRandom(s, r, u) ==
    IF s.conversationActive /\ ~s.isGenerating /\ Len(agents) > 0
    THEN LET availableAgents == AvailableAgents(s)
         IN triggerAIResponse(s, availableAgents[RandomIndex(r, Len(availableAgents)) + 1], u)
    ELSE IF s.conversationActive /\ s.isGenerating
    THEN scheduleAutoConversation(s, Undefined, u)
    ELSE s

timerCallback(s, r, u) ==
    IF s.conversationActive /\ ~s.isGenerating /\ Len(agents) > 0
    THEN LET availableAgents == AvailableAgents(s)
         IN triggerAIResponse(s, availableAgents[RandomIndex(r, Len(availableAgents)) + 1], u)
    ELSE IF s.conversationActive /\ s.isGenerating
    THEN scheduleAutoConversation(s, 2000, u)
    ELSE s

\* ------------------------------------------------------- handleFocusCommand
\* chatServer.addSystemMessage(text): a System message is appended.
addSystemMessage(s, content) == addMessage(s, ChatMessage("System", content))

\* chatServer.createMessage(sender, content)
createMessage(sender, content) == ChatMessage(sender, content)

\* Mutants of handleFocusCommand: the notice is appended after the question; the
\* agent is looked up after the messages were written; the command is carried
\* out as a roundtable of one agent.
handleFocusCommandNoticeLast(s, agentName, question) ==
    IF agentName \notin Range(agents) THEN [s EXCEPT !.commandResult = "unknownAgent"]
    ELSE IF question = "" THEN [s EXCEPT !.commandResult = "noQuestion"]
    ELSE [addSystemMessage(addMessage(s, createMessage("Human", "human")), "focus") EXCEPT
              !.focusTimers[agentName] = @ + 1,
              !.commandResult = "handled"]

handleFocusCommandLateLookup(s, agentName, question) ==
    LET written == addMessage(addSystemMessage(s, "focus"), createMessage("Human", "human"))
    IN IF agentName \notin Range(agents)
       THEN [written EXCEPT !.commandResult = "unknownAgent"]
       ELSE IF question = "" THEN [s EXCEPT !.commandResult = "noQuestion"]
       ELSE [written EXCEPT !.focusTimers[agentName] = @ + 1,
                            !.commandResult = "handled"]

handleFocusCommandAsRoundtable(s, agentName, question) ==
    IF agentName \notin Range(agents) THEN [s EXCEPT !.commandResult = "unknownAgent"]
    ELSE IF question = "" THEN [s EXCEPT !.commandResult = "noQuestion"]
    ELSE [addMessage(addSystemMessage(s, "focus"), createMessage("Human", "human")) EXCEPT
              !.roundtableMode = [active |-> TRUE, agents |-> <<agentName>>,
                                  currentIndex |-> 0],
              !.focusTimers[agentName] = @ + 1,
              !.commandResult = "handled"]

\* /focus @agentName question.  An agent that is not registered and a blank
\* question are refused before anything is written; else the notice and the
\* question are appended and the trigger of agentName waits 500 ms.
handleFocusCommand(s, agentName, question) ==
    IF agentName \notin Range(agents) THEN [s EXCEPT !.commandResult = "unknownAgent"]
    ELSE IF question = "" THEN [s EXCEPT !.commandResult = "noQuestion"]
    ELSE [addMessage(addSystemMessage(s, "focus"), createMessage("Human", "human")) EXCEPT
              !.focusTimers[agentName] = @ + 1,
              !.commandResult = "handled"]

\* ------------------------------------------- /roundtable and /consensus
\* /roundtable topic.  A blank topic is refused; else two notices and the topic
\* are appended, the overlay is set over whatever was there, and the driver
\* waits 1000 ms.
handleRoundtableCommand(s, topic) ==
    IF topic = "" THEN [s EXCEPT !.commandResult = "usage"]
    ELSE LET announced == addSystemMessage(addSystemMessage(s, "roundtable"), "sequence")
             asked == addMessage(announced, createMessage("Human", "topic"))
         IN [asked EXCEPT
                 !.roundtableMode = [active |-> TRUE, agents |-> agents, currentIndex |-> 0],
                 !.driverTimers.roundtable = @ + 1,
                 !.commandResult = "handled"]

\* /consensus question
handleConsensusCommand(s, question) ==
    IF question = "" THEN [s EXCEPT !.commandResult = "usage"]
    ELSE LET announced == addSystemMessage(addSystemMessage(s, "consensus"), "position")
             asked == addMessage(announced, createMessage("Human", "question"))
         IN [asked EXCEPT
                 !.consensusMode = [active |-> TRUE, agents |-> agents, currentIndex |-> 0,
                                    responses |-> <<>>],
                 !.driverTimers.consensus = @ + 1,
                 !.commandResult = "handled"]

\* ---------------------------------------------------------------- roles
RoleNames == AgentNames \cup {"GPT"}

\* initializeDefaultRoles() of src/command.js
initializeDefaultRoles ==
    [a \in RoleNames |-> [personality |-> "default", customRole |-> FALSE]]

\* Mutant of handleRoleCommand: the registry is not looked up.
handleRoleCommandNoLookup(s, agentName, roleDesc) ==
    IF roleDesc = "" THEN [s EXCEPT !.commandResult = "usage"]
    ELSE [s EXCEPT !.agentRoles =
                       [a \in DOMAIN @ \cup {agentName} |->
                           IF a = agentName
                           THEN [personality |-> roleDesc, customRole |-> TRUE]
                           ELSE @[a]],
                   !.commandResult = "roleUpdated"]

\* handleRoleCommand(args) of src/command.js, args parsed as
\* AgentName = "roleDesc"; a roleDesc of "" stands for args that do not match.
handleRoleCommand(s, agentName, roleDesc) ==
    IF roleDesc = "" THEN [s EXCEPT !.commandResult = "usage"]
    ELSE IF agentName \notin Range(agents)
    THEN [s EXCEPT !.commandResult = "unknownAgent"]
    ELSE [s EXCEPT !.agentRoles =
                       [a \in DOMAIN @ \cup {agentName} |->
                           IF a = agentName
                           THEN [personality |-> roleDesc, customRole |-> TRUE]
                           ELSE @[a]],
                   !.commandResult = "roleUpdated"]

\* this.commands: the commands the handler knows
Commands == {"/role", "/roundtable", "/consensus", "/focus", "/help", "/roles"}

\* execute(message): the command's handler runs; a command that is not in
\* this.commands is answered "Unknown command" and nothing else happens.  (/role,
\* /help and /roles write nothing the scheduler reads.)
execute(s, command, agentName, argument) ==
    CASE command = "/focus" -> handleFocusCommand(s, agentName, argument)
      [] command = "/roundtable" -> handleRoundtableCommand(s, argument)
      [] command = "/consensus" -> handleConsensusCommand(s, argument)
      [] command = "/role" -> handleRoleCommand(s, agentName, argument)
      [] command \in Commands \ {"/focus", "/roundtable", "/consensus", "/role"} ->
             [s EXCEPT !.commandResult = "handled"]
      [] OTHER -> [s EXCEPT !.commandResult = "unknownCommand"]

\* The roundtable driver after the turn of agents[currentIndex]: the next agent
\* follows after the step delay; after the last one the completion is announced,
\* the overlay is destroyed and normal scheduling is handed the control.
roundtableAdvance(s, u) ==
    LET m == s.roundtableMode
    IN IF ~m.active THEN s
       ELSE IF m.currentIndex + 1 >= Len(m.agents)
       THEN scheduleAutoConversation(
                [addSystemMessage(s, "complete") EXCEPT !.roundtableMode = NoRoundtable],
                Undefined, u)
       ELSE [s EXCEPT !.roundtableMode.currentIndex = @ + 1,
                      !.driverTimers.roundtable = @ + 1]

\* chatServer.triggerRoundtableResponse(), to its await: the agent at
\* currentIndex is triggered; a trigger that starts no attempt is not retried.
triggerRoundtableResponse(s, u) ==
    LET m == s.roundtableMode
    IN IF ~m.active THEN s
       ELSE IF m.currentIndex >= Len(m.agents) THEN roundtableAdvance(s, u)
       ELSE LET tried == triggerAIResponse(s, m.agents[m.currentIndex + 1], u)
            IN IF tried.triggerResult = "acquired"
               THEN [tried EXCEPT !.awaiting = "roundtable"]
               ELSE roundtableAdvance(tried, u)

\* The consensus driver after the turn of agents[currentIndex]: a successful
\* turn's text is recorded; after the last agent the summary enumerates the
\* recorded positions.
consensusAdvance(s, success, agentName, text, u) ==
    LET m == s.consensusMode
        responses == IF success
                     THEN Append(m.responses, [agent |-> agentName, text |-> text])
                     ELSE m.responses
    IN IF ~m.active THEN s
       ELSE IF m.currentIndex + 1 >= Len(m.agents)
       THEN scheduleAutoConversation(
                [addSystemMessage(s, "summary") EXCEPT
                     !.consensusMode = NoConsensus,
                     !.lastSummary = [emitted |-> TRUE, entries |-> responses]],
                Undefined, u)
       ELSE [s EXCEPT !.consensusMode.responses = responses,
                      !.consensusMode.currentIndex = @ + 1,
                      !.driverTimers.consensus = @ + 1]

\* chatServer.triggerConsensusResponse(), to its await
triggerConsensusResponse(s, u) ==
    LET m == s.consensusMode
    IN IF ~m.active THEN s
       ELSE IF m.currentIndex >= Len(m.agents)
       THEN consensusAdvance(s, FALSE, "null", "", u)
       ELSE LET agentName == m.agents[m.currentIndex + 1]
                tried == triggerAIResponse(s, agentName, u)
            IN IF tried.triggerResult = "acquired"
               THEN [tried EXCEPT !.awaiting = "consensus"]
               ELSE consensusAdvance(tried, FALSE, agentName, "", u)

\* The continuation of the driver that awaited the attempt, after the attempt's
\* own continuation returned success (a usable text was appended) or not.
driverResumes(s, agentName, outcome, u) ==
    LET success == outcome.kind = "resolve" /\ IsUsableResponse(outcome.content)
        resumed == [s EXCEPT !.awaiting = "none"]
    IN CASE s.awaiting = "roundtable" -> roundtableAdvance(resumed, u)
         [] s.awaiting = "consensus" ->
                consensusAdvance(resumed, success, agentName, outcome.content, u)
         [] OTHER -> s

\* Attempt i's race settles: triggerAIResponse returns, then its awaiter runs.
attemptSettled(s, i, outcome, u) ==
    CHOOSE after \in {driverResumes(done, s.inflight[i], outcome, u) :
                         done \in {raceSettled(s, i, outcome, u)}} : TRUE

\* ------------------------------------------------------------------- stop
\* Mutant of stop: conversationActive is left as it was.
stopKeepsActive(s) ==
    LET halted == [s EXCEPT !.timers = clearTimeout(@, s.autoConversationTimer),
                            !.saveTimers = clearTimeout(@, s.saveTimer)]
        notice == [sender |-> "System", content |-> "shutdown", seq |-> s.nextSeq]
    IN emit(emit(halted, "all", "newMessage", toJSON(notice)),
            "all", "typingStatus", {})

\* stop(), up to the call of io.close.
stop(s) ==
    LET halted == [s EXCEPT !.conversationActive = FALSE,
                            !.timers = clearTimeout(@, s.autoConversationTimer),
                            !.saveTimers = clearTimeout(@, s.saveTimer)]
        notice == [sender |-> "System", content |-> "shutdown", seq |-> s.nextSeq]
    IN emit(emit(halted, "all", "newMessage", toJSON(notice)),
            "all", "typingStatus", {})

\* ------------------------------------------------------------- snapshots
LogFile == "conversation_log.json"
DumpFile == "conversation_error_dump.json"
NoFiles == [f \in {LogFile, DumpFile} |-> [exists |-> FALSE, data |-> <<>>]]

\* Mutant of saveConversation: the file name passed in is ignored.
saveConversationDefault(s, filename, written) ==
    IF written
    THEN [s EXCEPT !.files[LogFile] =
                       [exists |-> TRUE, data |-> JSONstringify(Snapshot(s.messages))]]
    ELSE [s EXCEPT !.saveFailed = TRUE]

\* saveConversation(filename); fs.writeFileSync may throw, which is caught and
\* logged: the file then stays as it was.
saveConversation(s, filename, written) ==
    IF written
    THEN [s EXCEPT !.files[filename] =
                       [exists |-> TRUE, data |-> JSONstringify(Snapshot(s.messages))]]
    ELSE [s EXCEPT !.saveFailed = TRUE]

\* The callback of the idle-save timer.
saveTimerCallback(s, written) == saveConversation(s, LogFile, written)

\* process.exit(code)
exit(s, code) == [s EXCEPT !.exitCode = <<code>>]

\* The callback of this.io.close() in stop(): it saves, closes the HTTP server and
\* sets the 5000 ms timer of the forced exit.
ioClosed(s, written) == saveConversation(s, LogFile, written)

\* Mutant of serverClosed: exit code 1 whether or not the close failed.
serverClosedOne(s, err) == exit(s, 1)

\* The callback of this.server.close() in stop()
serverClosed(s, err) == exit(s, IF err THEN 1 ELSE 0)

\* The 5000 ms timer of stop(): process.exit(1)
forcedExit(s) == exit(s, 1)

\* process.on('uncaughtException')
uncaughtException(s, written) == exit(saveConversation(s, DumpFile, written), 1)

\* -------------------------------------------------------------- viewers
\* Mutant of recent: the first RecentCount messages instead of the last.
recentFirst(msgs) ==
    SubSeq(msgs, 1, IF Len(msgs) > RecentCount THEN RecentCount ELSE Len(msgs))

\* this.messages.slice(-50)
recent(msgs) ==
    SubSeq(msgs, IF Len(msgs) > RecentCount THEN Len(msgs) - RecentCount + 1 ELSE 1,
           Len(msgs))

\* handleConnection(socket): what the new socket is sent
handleConnection(s) ==
    emit(emit(s, "socket", "initialHistory", Snapshot(recent(s.messages))),
         "socket", "typingStatus", s.typingAgents)

\* ---------------------------------------------------------------- actions
Init ==
    /\ phase = "constructed"
    /\ agents = <<>>
    /\ initTimer = FALSE
    /\ messages = <<>>
    /\ nextSeq = 0
    /\ conversationActive = FALSE
    /\ isGenerating = FALSE
    /\ typingAgents = {}
    /\ autoConversationTimer = Null
    /\ timers = {}
    /\ inflight = <<>>
    /\ abandonedCalls = FALSE
    /\ focusTimers = [a \in AgentNames |-> 0]
    /\ commandResult = "none"
    /\ roundtableMode = NoRoundtable
    /\ consensusMode = NoConsensus
    /\ driverTimers = [roundtable |-> 0, consensus |-> 0]
    /\ awaiting = "none"
    /\ available = {}
    /\ histories = <<>>
    /\ saveTimer = Null
    /\ saveTimers = {}
    /\ files = NoFiles
    /\ agentRoles = initializeDefaultRoles
    /\ exitCode = <<>>
    /\ emitted = <<>>
    /\ saveFailed = FALSE
    /\ lastSummary = NoSummary
    /\ lastStep = "none"
    /\ lastError = NoError
    /\ triggerResult = "none"

\* The draws that reach every index of a list of registered agents.
IndexDraws == 0..(Len(AgentSlots) - 1)

Running == phase \in {"started", "listening", "stopping", "closing"}

\* start(): the agents whose API key is present are registered.
Start ==
    /\ lastStep' = "Start"
    /\ phase = "constructed"
    /\ \E geminiKey \in BOOLEAN, togetherKey \in BOOLEAN :
          available' = {a \in AgentNames : IF a = "Gemini" THEN geminiKey ELSE togetherKey}
    /\ agents' = addAgent(addAgent(addAgent(<<>>, AgentSlots[1],
                                            AgentSlots[1] \in available'),
                                   AgentSlots[2], AgentSlots[2] \in available'),
                          AgentSlots[3], AgentSlots[3] \in available')
    /\ histories' = [a \in Range(agents') |-> <<>>]
    /\ initTimer' = TRUE
    /\ phase' = "started"
    /\ UNCHANGED <<messages, nextSeq, conversationActive, isGenerating, typingAgents,
                   autoConversationTimer, timers, inflight, abandonedCalls,
                   focusTimers, roundtableMode, consensusMode, driverTimers,
                   awaiting, saveTimer, saveTimers, files, agentRoles, exitCode,
                   emitted, saveFailed, lastSummary, lastError, commandResult,
                   triggerResult>>

\* setTimeout(() => this.addMessage(new ChatMessage('System', "Nexus Chat ...")), 500)
InitMessage ==
    /\ lastStep' = "InitMessage"
    /\ Running
    /\ initTimer
    /\ initTimer' = FALSE
    /\ \E s2 \in {addMessage(State, ChatMessage("System", "init"))} : Install(s2)
    /\ UNCHANGED <<phase, agents, available, abandonedCalls>>

\* server.listen(PORT, callback)
Listening ==
    /\ lastStep' = "Listening"
    /\ phase = "started"
    /\ phase' = "listening"
    /\ LET active == [State EXCEPT !.conversationActive = Len(agents) > 0]
           scheduled == IF Len(agents) > 0
                        THEN scheduleAutoConversation(active, 5000, 0)
                        ELSE active
       IN Install(resetSaveTimer(scheduled))
    /\ UNCHANGED <<agents, available, initTimer, abandonedCalls>>

\* socket.on('humanMessage') with content that passes the validation
HumanInput ==
    /\ lastStep' = "HumanInput"
    /\ phase = "listening"
    /\ \E s1 \in {State} :
          \E s2 \in {handleHumanInput(s1, r, u) : r \in IndexDraws, u \in RandDraws} :
             Install(s2)
    /\ UNCHANGED <<phase, agents, available, initTimer, abandonedCalls>>

\* A pending auto-conversation timer fires.  The first one is armed for 5000 ms
\* by the listen callback, after start() armed the 500 ms timer of the initial
\* message, so the initial message comes first.
TimerFires ==
    /\ lastStep' = "TimerFires"
    /\ Running
    /\ ~initTimer
    /\ \E t \in timers :
          \E s1 \in {[State EXCEPT !.timers = @ \ {t}]} :
             \E s2 \in {timerCallback(s1, r, u) : r \in IndexDraws, u \in RandDraws} :
                Install(s2)
    /\ UNCHANGED <<phase, agents, available, initTimer, abandonedCalls>>

\* The agent's call settles before the timeout.  (The timeout timer fires later
\* and rejects a promise whose race is over: no handler runs.)
ResponseSettles ==
    /\ lastStep' = "ResponseSettles"
    /\ Running
    /\ \E i \in DOMAIN inflight, s1 \in {State} :
          \E s2 \in {attemptSettled(s1, i, outcome, u) :
                         outcome \in Outcomes(inflight[i]), u \in RandDraws} :
             Install(s2)
    /\ UNCHANGED <<phase, agents, available, initTimer, abandonedCalls>>

\* The agent's call wins the race with a reply text.
ReplySettles ==
    /\ lastStep' = "ReplySettles"
    /\ Running
    /\ \E i \in DOMAIN inflight, s1 \in {State} :
          \E s2 \in {attemptSettled(s1, i, Resolve("reply"), u) : u \in RandDraws} :
             Install(s2)
    /\ UNCHANGED <<phase, agents, available, initTimer, abandonedCalls>>

\* The timeout timer fires first; the agent's call stays pending.
TimeoutFires ==
    /\ lastStep' = "TimeoutFires"
    /\ Running
    /\ \E i \in DOMAIN inflight, s1 \in {State} :
          \E s2 \in {attemptSettled(s1, i, TimeoutRejection, u) : u \in RandDraws} :
             Install(s2)
    /\ abandonedCalls' = TRUE
    /\ UNCHANGED <<phase, agents, available, initTimer>>

\* An abandoned call fulfils or rejects after its timeout.
LateOutcomes == {Resolve("reply"), Reject(TypeErrorTextLen)}

\* An abandoned call settles after its timeout.  How many calls were abandoned is
\* not recorded: the step stays possible once a timeout has happened.
LateResponse ==
    /\ lastStep' = "LateResponse"
    /\ Running
    /\ abandonedCalls
    /\ \E s1 \in {State} :
          \E s2 \in {lateSettled(s1, a, outcome) :
                         a \in Range(agents), outcome \in LateOutcomes} :
             Install(s2)
    /\ UNCHANGED <<phase, agents, available, initTimer, abandonedCalls>>

\* The names and questions a client puts in a /focus command.
FocusNames == AgentNames \cup {"Nobody"}
Questions == {"", "question"}

PendingFocus(s) == {a \in AgentNames : s.focusTimers[a] > 0}
PendingFocusCount(s) ==
    s.focusTimers[AgentSlots[1]] + s.focusTimers[AgentSlots[2]] + s.focusTimers[AgentSlots[3]]
focusPending == PendingFocus(State) # {}

\* A client sends /focus with a registered agent's name and a question.
FocusCommand ==
    /\ lastStep' = "FocusCommand"
    /\ phase = "listening"
    /\ \E s1 \in {State}, agentName \in Range(agents) :
          \E s2 \in {execute(s1, "/focus", agentName, "question")} :
             /\ PendingFocusCount(s2) <= MaxPending
             /\ Install(s2)
    /\ UNCHANGED <<phase, agents, available, initTimer, abandonedCalls>>

\* A client sends /focus with a name that is not registered, or without a question.
FocusRefused ==
    /\ lastStep' = "FocusRefused"
    /\ phase = "listening"
    /\ \E s1 \in {State}, agentName \in FocusNames, question \in Questions :
          /\ agentName \notin Range(agents) \/ question = ""
          /\ \E s2 \in {execute(s1, "/focus", agentName, question)} : Install(s2)
    /\ UNCHANGED <<phase, agents, available, initTimer, abandonedCalls>>

\* A 500 ms timer of a /focus command fires: triggerAIResponse(agentName).
FocusFires ==
    /\ lastStep' = "FocusFires"
    /\ Running
    /\ \E a \in PendingFocus(State) :
          \E s1 \in {[State EXCEPT !.focusTimers[a] = @ - 1]} :
             \E s2 \in {triggerAIResponse(s1, a, u) : u \in RandDraws} : Install(s2)
    /\ UNCHANGED <<phase, agents, available, initTimer, abandonedCalls>>

\* A client sends a command the handler does not list: /pause, /resume.
PauseCommand ==
    /\ lastStep' = "PauseCommand"
    /\ phase = "listening"
    /\ \E s1 \in {State} : \E s2 \in {execute(s1, "/pause", "", "")} : Install(s2)
    /\ UNCHANGED <<phase, agents, available, initTimer, abandonedCalls>>

ResumeCommand ==
    /\ lastStep' = "ResumeCommand"
    /\ phase = "listening"
    /\ \E s1 \in {State} : \E s2 \in {execute(s1, "/resume", "", "")} : Install(s2)
    /\ UNCHANGED <<phase, agents, available, initTimer, abandonedCalls>>

\* A client sends /roundtable with a topic.
RoundtableCommand ==
    /\ lastStep' = "RoundtableCommand"
    /\ phase = "listening"
    /\ driverTimers.roundtable < MaxPending
    /\ \E s1 \in {State} :
          \E s2 \in {execute(s1, "/roundtable", "", "topic")} : Install(s2)
    /\ UNCHANGED <<phase, agents, available, initTimer, abandonedCalls>>

\* A pending timer of the roundtable driver fires.
RoundtableFires ==
    /\ lastStep' = "RoundtableFires"
    /\ Running
    /\ driverTimers.roundtable > 0
    /\ \E s1 \in {[State EXCEPT !.driverTimers.roundtable = @ - 1]} :
          \E s2 \in {triggerRoundtableResponse(s1, u) : u \in RandDraws} : Install(s2)
    /\ UNCHANGED <<phase, agents, available, initTimer, abandonedCalls>>

\* A client sends /consensus with a question.
ConsensusCommand ==
    /\ lastStep' = "ConsensusCommand"
    /\ phase = "listening"
    /\ driverTimers.consensus < MaxPending
    /\ \E s1 \in {State} :
          \E s2 \in {execute(s1, "/consensus", "", "question")} : Install(s2)
    /\ UNCHANGED <<phase, agents, available, initTimer, abandonedCalls>>

\* A pending timer of the consensus driver fires.
ConsensusFires ==
    /\ lastStep' = "ConsensusFires"
    /\ Running
    /\ driverTimers.consensus > 0
    /\ \E s1 \in {[State EXCEPT !.driverTimers.consensus = @ - 1]} :
          \E s2 \in {triggerConsensusResponse(s1, u) : u \in RandDraws} : Install(s2)
    /\ UNCHANGED <<phase, agents, available, initTimer, abandonedCalls>>

\* SIGINT / SIGTERM: chatServer.stop()
Stop ==
    /\ lastStep' = "Stop"
    /\ phase = "listening"
    /\ phase' = "stopping"
    /\ \E s2 \in {stop(State)} : Install(s2)
    /\ UNCHANGED <<agents, available, initTimer, abandonedCalls>>

\* The rest of the shutdown as one step: the callback of io.close() saves, and
\* the process exits from the callback of server.close() or by the forced exit.
Exit ==
    /\ lastStep' = "Exit"
    /\ phase = "stopping"
    /\ phase' = "exited"
    /\ \E written \in BOOLEAN, err \in BOOLEAN :
          \E s2 \in {serverClosed(ioClosed(State, written), err)} : Install(s2)
    /\ UNCHANGED <<agents, available, initTimer, abandonedCalls>>

\* The callback of this.io.close() in stop()
IoClosed ==
    /\ lastStep' = "IoClosed"
    /\ phase = "stopping"
    /\ phase' = "closing"
    /\ \E written \in BOOLEAN : \E s2 \in {ioClosed(State, written)} : Install(s2)
    /\ UNCHANGED <<agents, available, initTimer, abandonedCalls>>

\* The callback of this.server.close() without an error
ServerClosed ==
    /\ lastStep' = "ServerClosed"
    /\ phase = "closing"
    /\ phase' = "exited"
    /\ \E s2 \in {serverClosed(State, FALSE)} : Install(s2)
    /\ UNCHANGED <<agents, available, initTimer, abandonedCalls>>

\* The callback of this.server.close() with an error
ServerCloseFails ==
    /\ lastStep' = "ServerCloseFails"
    /\ phase = "closing"
    /\ phase' = "exited"
    /\ \E s2 \in {serverClosed(State, TRUE)} : Install(s2)
    /\ UNCHANGED <<agents, available, initTimer, abandonedCalls>>

\* The 5000 ms timer set in the callback of io.close() fires.
ForceExit ==
    /\ lastStep' = "ForceExit"
    /\ phase = "closing"
    /\ phase' = "exited"
    /\ \E s2 \in {forcedExit(State)} : Install(s2)
    /\ UNCHANGED <<agents, available, initTimer, abandonedCalls>>

\* An exception no handler caught: process.on('uncaughtException')
Crash ==
    /\ lastStep' = "Crash"
    /\ Running
    /\ phase' = "exited"
    /\ \E written \in BOOLEAN :
          \E s2 \in {uncaughtException(State, written)} : Install(s2)
    /\ UNCHANGED <<agents, available, initTimer, abandonedCalls>>

\* start() does not find the public directory: process.exit(1)
StartFails ==
    /\ lastStep' = "StartFails"
    /\ phase = "constructed"
    /\ phase' = "exited"
    /\ \E s2 \in {exit(State, 1)} : Install(s2)
    /\ UNCHANGED <<agents, available, initTimer, abandonedCalls>>

\* this.server.on('error'): the port cannot be bound, process.exit(1)
ListenError ==
    /\ lastStep' = "ListenError"
    /\ phase = "started"
    /\ phase' = "exited"
    /\ \E s2 \in {exit(State, 1)} : Install(s2)
    /\ UNCHANGED <<agents, available, initTimer, abandonedCalls>>

\* The idle-save timer fires.
SaveTimerFires ==
    /\ lastStep' = "SaveTimerFires"
    /\ Running
    /\ \E t \in saveTimers, written \in BOOLEAN :
          \E s2 \in {saveTimerCallback([State EXCEPT !.saveTimers = @ \ {t}], written)} :
              Install(s2)
    /\ UNCHANGED <<phase, agents, available, initTimer, abandonedCalls>>

\* io.on('connection'): a viewer connects.
Connect ==
    /\ lastStep' = "Connect"
    /\ phase = "listening"
    /\ \E s2 \in {handleConnection(State)} : Install(s2)
    /\ UNCHANGED <<phase, agents, available, initTimer, abandonedCalls>>

\* What a caller may pass to addMessage that is not a ChatMessage: the plain
\* object a message serialises to, or one with the fields of a message and more.
Malformed ==
    {toJSON([sender |-> "Human", content |-> "text", seq |-> 0]),
     [sender |-> "System", content |-> "text", plain |-> TRUE]}

\* addMessage is called with something that is not a ChatMessage.
InvalidAppend ==
    /\ lastStep' = "InvalidAppend"
    /\ Running
    /\ \E m \in Malformed : \E s2 \in {addMessage(State, m)} : Install(s2)
    /\ UNCHANGED <<phase, agents, available, initTimer, abandonedCalls>>

\* The role descriptions a /role command may carry; "" for args without one.
RoleDescs == {"", "described"}

\* A client sends /role.
RoleCommand ==
    /\ lastStep' = "RoleCommand"
    /\ phase = "listening"
    /\ \E agentName \in {"Gemini", "GPT"}, roleDesc \in RoleDescs :
          \E s2 \in {execute(State, "/role", agentName, roleDesc)} : Install(s2)
    /\ UNCHANGED <<phase, agents, available, initTimer, abandonedCalls>>

Next ==
    \/ Start
    \/ InitMessage
    \/ Listening
    \/ HumanInput
    \/ TimerFires
    \/ ResponseSettles
    \/ TimeoutFires
    \/ LateResponse
    \/ Stop
    \/ Exit

\* src/server.js as it stands: it does not load src/command.js.
Spec == Init /\ [][Next]_vars

\* The server with the CommandHandler of src/command.js attached to it.
CommandNext ==
    \/ Next
    \/ FocusCommand
    \/ FocusFires

CommandSpec == Init /\ [][CommandNext]_vars

\* The running server: its start, its timer and its generation attempts.
ServerNext ==
    \/ Start
    \/ InitMessage
    \/ Listening
    \/ TimerFires
    \/ ResponseSettles
    \/ TimeoutFires

\* The running server with the /focus command and the commands a client may try
\* for pausing.
FocusNext ==
    \/ ServerNext
    \/ FocusCommand
    \/ FocusRefused
    \/ FocusFires
    \/ PauseCommand
    \/ ResumeCommand

FocusSpec == Init /\ [][FocusNext]_vars

\* The running server with the /roundtable and /focus commands.
RoundtableNext ==
    \/ ServerNext
    \/ RoundtableCommand
    \/ RoundtableFires
    \/ FocusCommand
    \/ FocusFires

RoundtableSpec == Init /\ [][RoundtableNext]_vars

\* The running server with the /consensus command.
ConsensusNext ==
    \/ ServerNext
    \/ ConsensusCommand
    \/ ConsensusFires

ConsensusSpec == Init /\ [][ConsensusNext]_vars

\* The running server with the viewers that connect and a caller that appends
\* what is not a message.
ViewerNext ==
    \/ ServerNext
    \/ Connect
    \/ InvalidAppend

ViewerSpec == Init /\ [][ViewerNext]_vars

\* The server with its idle-save timer, while every provider answers with a text
\* or not within the timeout.
SaveNext ==
    \/ Start
    \/ InitMessage
    \/ Listening
    \/ TimerFires
    \/ ReplySettles
    \/ TimeoutFires
    \/ SaveTimerFires

SaveSpec == Init /\ [][SaveNext]_vars

\* The running server with its human input, the /role command and the shutdown.
RoleNext ==
    \/ ServerNext
    \/ HumanInput
    \/ RoleCommand
    \/ Stop
    \/ Exit

RoleSpec == Init /\ [][RoleNext]_vars

\* The server from its start to its exit: by a shutdown, by a failure to start or
\* by an exception that nothing caught.
ShutdownNext ==
    \/ ServerNext
    \/ StartFails
    \/ ListenError
    \/ Stop
    \/ IoClosed
    \/ ServerClosed
    \/ ServerCloseFails
    \/ ForceExit
    \/ Crash

ShutdownSpec == Init /\ [][ShutdownNext]_vars

\* The callback of io.close() runs once the sockets are closed, and the 5000 ms
\* timer it sets fires while the process lives; the callback of server.close()
\* may never run (a connection may stay open).
FairShutdownSpec ==
    /\ ShutdownSpec
    /\ WF_vars(IoClosed)
    /\ WF_vars(ForceExit)

\* The computation of the random wait alone, over draws finer than RandDraws.
DrawWait ==
    /\ lastStep' = "DrawWait"
    /\ \E num \in 0..(DrawDen - 1) :
          \E s2 \in {armRandom(State, num, DrawDen)} : Install(s2)
    /\ UNCHANGED <<phase, agents, available, initTimer, abandonedCalls>>

DelaySpec == Init /\ [][DrawWait]_vars

\* A pending setTimeout callback runs while the process lives: the 500 ms
\* initial message, the auto-conversation timer, the responseTimeout of a race.
FairSpec ==
    /\ Spec
    /\ WF_vars(InitMessage)
    /\ WF_vars(TimerFires)
    /\ WF_vars(TimeoutFires)

\* ----------------------------------------------------------------- claims
TimerArmed == \E t \in timers : t.id = autoConversationTimer

\* C1: at most one generation attempt is in flight at any instant, and
\* isGenerating is true exactly while an attempt that acquired the lock has not
\* run its finally step.
C1_SingleFlight ==
    /\ Len(inflight) <= 1
    /\ isGenerating <=> Len(inflight) = 1

\* A human message was refused the lock while an attempt was in flight and a
\* /focus trigger was waiting as well.
C1_Witness ==
    /\ lastStep = "HumanInput"
    /\ focusPending
    /\ Len(inflight) = 1
    /\ triggerResult = "dropped"

\* C2: after every append the store holds at most maxHistory messages.
C2_Bounded == Len(messages) <= maxHistory

\* The store is full after an eviction, with a Human and an agent message in it.
C2_Witness ==
    /\ Len(messages) = maxHistory
    /\ messages[1].seq # 0
    /\ \E i, j \in DOMAIN messages :
          messages[i].sender = "Human" /\ messages[j].sender \in AgentNames

\* C3: eviction is FIFO and order-preserving.  The store holds, in insertion
\* order, the last min(maxHistory, k) of the k accepted messages: its sequence
\* numbers are consecutive and end at the latest append, nothing is missing
\* while the store is not full, and a step keeps the survivors as they were and
\* in their order, dropping messages only from the head and only when full.
C3_StoreIsTail ==
    /\ \A i \in DOMAIN messages :
          messages[i].seq = (nextSeq + SeqMod - (Len(messages) - i + 1)) % SeqMod
    /\ Len(messages) < maxHistory => nextSeq = Len(messages)

C3_StepKeepsOrder ==
    \E k \in 0..Len(messages) :
        /\ Len(messages') >= Len(messages) - k
        /\ SubSeq(messages', 1, Len(messages) - k) = SubSeq(messages, k + 1, Len(messages))
        /\ k > 0 => Len(messages') = maxHistory

C3_Fifo == [](C3_StoreIsTail) /\ [][C3_StepKeepsOrder]_vars

\* The oldest message was evicted from a full store.
C3_Witness == Len(messages) = maxHistory /\ messages[1].seq = 1

\* C4: with at least 2 agents registered and the latest message sent by a
\* registered agent, a generation started by the auto timer is never by that
\* sender.  (The timer step appends nothing, so the store after the step is the
\* store the speaker was selected against.)
C4_NoRepeat ==
    (/\ lastStep = "TimerFires"
     /\ triggerResult = "acquired"
     /\ Len(agents) >= 2
     /\ Len(messages) > 0
     /\ messages[Len(messages)].sender \in Range(agents))
    => inflight[Len(inflight)] # messages[Len(messages)].sender

\* The timer started an attempt while an agent's message was the latest.
C4_Witness ==
    /\ lastStep = "TimerFires"
    /\ triggerResult = "acquired"
    /\ Len(agents) >= 2
    /\ Len(inflight) = 1
    /\ Len(messages) > 0
    /\ messages[Len(messages)].sender \in Range(agents)

\* C5: a generation that times out appends exactly one System diagnostic
\* message, releases the lock and, when conversationActive, leaves exactly one
\* auto timer armed; the abandoned call's late result appends nothing and
\* starts nothing.
C5_Timeout ==
    [][/\ lastStep' = "TimeoutFires" =>
            /\ nextSeq' = (nextSeq + 1) % SeqMod
            /\ messages'[Len(messages')].sender = "System"
            /\ messages'[Len(messages')].content = "diagnostic"
            /\ messages'[Len(messages')].seq = nextSeq
            /\ ~isGenerating'
            /\ conversationActive =>
                  Cardinality(timers') = 1 /\ \E t \in timers' : t.id = autoConversationTimer'
       /\ lastStep' = "LateResponse" =>
            /\ messages' = messages
            /\ nextSeq' = nextSeq
            /\ inflight' = inflight
            /\ timers' = timers]_vars

\* The abandoned call settles right after its timeout: the diagnostic is still
\* the latest message and the timer armed by the timeout is still pending.
C5_Witness ==
    /\ lastStep = "LateResponse"
    /\ ~isGenerating
    /\ Len(messages) > 0
    /\ messages[Len(messages)].sender = "System"
    /\ messages[Len(messages)].content = "diagnostic"
    /\ TimerArmed

Stopped == phase \in {"stopping", "exited"}

\* C6: every attempt that acquires the lock eventually clears isGenerating and
\* leaves the typing set, whatever the outcome (text, empty text, a throw, no
\* answer within the timeout), as long as the process has not exited; the step
\* that settles the race is the step that releases.
C6_Releases ==
    /\ isGenerating ~> ((~isGenerating /\ typingAgents = {}) \/ phase = "exited")
    /\ [][lastStep' \in {"ResponseSettles", "TimeoutFires"} =>
             /\ ~isGenerating'
             /\ Len(inflight') = Len(inflight) - 1
             /\ typingAgents' = typingAgents \ Range(inflight)]_vars

\* A call that threw has been absorbed: lock free, nobody typing.
C6_Witness ==
    /\ lastStep = "ResponseSettles"
    /\ ~isGenerating
    /\ typingAgents = {}
    /\ Len(messages) > 0
    /\ messages[Len(messages)].content = "diagnostic"

\* C7: while the conversation is active and stop is not invoked, a further
\* generation attempt starts after every generation outcome.
C7_LoopContinues ==
    (lastStep \in {"ResponseSettles", "TimeoutFires"} /\ conversationActive)
        ~> (triggerResult = "acquired" \/ Stopped)

\* A further attempt was started by the timer after a failed turn.
C7_Witness ==
    /\ lastStep = "TimerFires"
    /\ triggerResult = "acquired"
    /\ Len(messages) > 0
    /\ messages[Len(messages)].content = "diagnostic"

\* C8: triggerAIResponse called while the lock is held changes nothing (store,
\* typing set, timers, lock, attempts in flight), for every agent name; and an
\* attempt only ever starts inside the handler that triggers it, never when the
\* lock is released.
C8_DropIsNoOp ==
    isGenerating =>
        \A a \in AgentNames \cup {"Nobody"}, u \in RandDraws :
            triggerAIResponse(State, a, u) = [State EXCEPT !.triggerResult = "dropped"]

C8_Dropped ==
    /\ [](C8_DropIsNoOp)
    /\ [][/\ triggerResult' = "dropped" =>
                /\ inflight' = inflight
                /\ isGenerating' = isGenerating
                /\ typingAgents' = typingAgents
          /\ Len(inflight') > Len(inflight) =>
                /\ lastStep' \in {"HumanInput", "TimerFires", "FocusFires"}
                /\ triggerResult' = "acquired"
          /\ (lastStep' = "FocusFires" /\ isGenerating) =>
                /\ triggerResult' = "dropped"
                /\ messages' = messages
                /\ timers' = timers
                /\ autoConversationTimer' = autoConversationTimer
                /\ conversationActive' = conversationActive]_vars

\* A focused trigger found the lock held while the auto timer was armed.
C8_Witness ==
    /\ lastStep = "FocusFires"
    /\ triggerResult = "dropped"
    /\ isGenerating
    /\ TimerArmed

\* C9: an accepted human message is appended as a Human message, leaves
\* conversationActive true and no auto timer pending, and, with an agent
\* registered and the lock free, starts an attempt by a registered agent in the
\* same step; every registered agent can be the one, the speaker before the
\* human included.
C9_AnyAgentMayAnswer ==
    (phase = "listening" /\ ~isGenerating) =>
        \A a \in Range(agents) :
            \E r \in IndexDraws, u \in RandDraws :
                handleHumanInput(State, r, u).inflight = <<a>>

C9_Human ==
    /\ [](C9_AnyAgentMayAnswer)
    /\ [][lastStep' = "HumanInput" =>
             /\ messages'[Len(messages')] =
                    [sender |-> "Human", content |-> "human", seq |-> nextSeq]
             /\ conversationActive'
             /\ timers' = {}
             /\ autoConversationTimer' = Null
             /\ (Len(agents) > 0 /\ ~isGenerating) =>
                    /\ isGenerating'
                    /\ triggerResult' = "acquired"
                    /\ Len(inflight') = 1
                    /\ inflight'[1] \in Range(agents)
                    /\ inflight'[1] \in typingAgents']_vars

\* The agent that spoke just before the human answers the human, and the timer
\* that was armed is gone.
C9_Witness ==
    /\ lastStep = "HumanInput"
    /\ triggerResult = "acquired"
    /\ Len(messages) = 2
    /\ messages[1].sender = inflight[1]
    /\ timers = {}

\* C10: a human message whose immediate attempt cannot start raises no error;
\* with an agent registered the lock is then held by the attempt in flight, the
\* settling of that attempt arms the auto timer while the conversation is
\* active, and so the timer is eventually armed again unless stop intervenes.
C10_FallsBack ==
    /\ [](lastStep = "HumanInput" =>
             /\ triggerResult \in {"acquired", "dropped", "none"}
             /\ conversationActive
             /\ Len(agents) > 0 => isGenerating)
    /\ [][(lastStep' \in {"ResponseSettles", "TimeoutFires"} /\ conversationActive)
             => \E t \in timers' : t.id = autoConversationTimer']_vars
    /\ (lastStep = "HumanInput" /\ triggerResult = "dropped") ~> (TimerArmed \/ Stopped)

\* The attempt that held the lock when the human message came has settled and
\* armed the timer; the human message is still the latest but one.
C10_Witness ==
    /\ lastStep \in {"ResponseSettles", "TimeoutFires"}
    /\ conversationActive
    /\ TimerArmed
    /\ ~isGenerating
    /\ Len(messages) = 2
    /\ messages[1].sender = "Human"
    /\ messages[1].seq # 0

\* The rejections the race of attempt i can settle with.
Rejections(i) ==
    {TimeoutRejection} \cup {o \in Outcomes(inflight[i]) : o.kind = "reject"}

\* C11: when the race of an attempt rejects (the agent's call threw, or the
\* timeout won), the continuation appends exactly one message, a System
\* diagnostic showing the first ErrCap characters of the error text at most,
\* appends no agent message, releases the lock and leaves the timer armed when
\* conversationActive; and the steps that catch an error do exactly that.
C11_RejectionAbsorbed ==
    \A i \in DOMAIN inflight, u \in RandDraws :
        \A o \in Rejections(i) :
            LET after == raceSettled(State, i, o, u)
            IN /\ after.nextSeq = (nextSeq + 1) % SeqMod
               /\ Last(after.messages) =
                      [sender |-> "System", content |-> "diagnostic", seq |-> nextSeq]
               /\ after.lastError.caught
               /\ after.lastError.len = o.len
               /\ after.lastError.shown <= ErrCap
               /\ after.lastError.shown = IF o.len < ErrCap THEN o.len ELSE ErrCap
               /\ ~after.isGenerating
               /\ conversationActive =>
                     \E tm \in after.timers : tm.id = after.autoConversationTimer

C11_ErrorDiagnostic ==
    /\ [](C11_RejectionAbsorbed)
    /\ [][/\ lastStep' = "TimeoutFires" => lastError'.caught
          /\ lastError'.caught =>
                /\ lastStep' \in {"ResponseSettles", "TimeoutFires"}
                /\ nextSeq' = (nextSeq + 1) % SeqMod
                /\ Last(messages').sender = "System"
                /\ lastError'.shown <= ErrCap]_vars

\* An agent's call threw an error whose text is longer than ErrCap: the
\* diagnostic shows ErrCap characters of it and the timer is armed again.
C11_Witness ==
    /\ lastStep = "ResponseSettles"
    /\ lastError.caught
    /\ lastError.len > ErrCap
    /\ lastError.shown = ErrCap
    /\ Last(messages).sender = "System"
    /\ TimerArmed

\* ------------------------------------------------------------------ C12
\* The provider behaviours in which the provider call threw or returned a payload
\* without the expected text.
FailedBehaviours == {"malformed", "error", "badThrow", "longThrow"}

\* C12: a failed provider call (it threw, or returned a malformed payload) surfaces
\* as a System message: the continuation of every such call appends one message
\* and its sender is System, and no apology text of an adapter stands in the store
\* under an agent's name.
C12_FailureIsSystem ==
    /\ \A i \in DOMAIN inflight, u \in RandDraws, p \in FailedBehaviours :
           LET after == raceSettled(State, i, generateResponse(inflight[i], p), u)
           IN /\ after.nextSeq = (nextSeq + 1) % SeqMod
              /\ Last(after.messages).sender = "System"
    /\ \A k \in DOMAIN messages :
           messages[k].content = "apology" => messages[k].sender = "System"

\* ------------------------------------------------------------------ C13
\* C13: a roundtable over the registered agents puts in the store, in this order
\* and once each, the System announcement, the Human topic, one turn of every
\* agent in registration order, and the System completion.  Step by step: the
\* command appends the announcement and then the topic; every step of the driver
\* starts the turn of the agent at currentIndex; currentIndex moves by one, after
\* that turn; the completion is appended in the step that ends the overlay, after
\* the last agent's turn.
C13_CommandAnnounces ==
    (lastStep' = "RoundtableCommand" /\ commandResult' = "handled") =>
        /\ nextSeq' = (nextSeq + 3) % SeqMod
        /\ Last(messages') =
               [sender |-> "Human", content |-> "topic", seq |-> (nextSeq + 2) % SeqMod]
        /\ messages'[Len(messages') - 1] =
               [sender |-> "System", content |-> "sequence", seq |-> (nextSeq + 1) % SeqMod]
        /\ roundtableMode' = [active |-> TRUE, agents |-> agents, currentIndex |-> 0]

C13_DriverStartsTurn ==
    (/\ lastStep' = "RoundtableFires"
     /\ roundtableMode.active
     /\ roundtableMode.currentIndex < Len(roundtableMode.agents)) =>
        /\ triggerResult' = "acquired"
        /\ inflight' = <<roundtableMode.agents[roundtableMode.currentIndex + 1]>>
        /\ roundtableMode' = roundtableMode

C13_CompletesOnce ==
    (roundtableMode.active /\ ~roundtableMode'.active) =>
        /\ roundtableMode.currentIndex + 1 >= Len(roundtableMode.agents)
        /\ Last(messages').sender = "System"
        /\ Last(messages').content = "complete"

C13_RoundtableOrder ==
    [][C13_CommandAnnounces /\ C13_DriverStartsTurn /\ C13_CompletesOnce]_vars

\* ------------------------------------------------------------------ C14
\* The positions the consensus holds after a step that ended in state `after`:
\* the summary's entries if the step wrote the summary, else the recorded list.
PositionsAfter(after) ==
    IF after.lastSummary.emitted THEN after.lastSummary.entries
    ELSE after.consensusMode.responses

\* The ways the turn of agentName can end: each provider behaviour, with what the
\* race settles with, and the timeout.
TurnEndings(agentName) ==
    {[failed |-> p \in FailedBehaviours, outcome |-> generateResponse(agentName, p)] :
        p \in ProviderBehaviours}
    \cup {[failed |-> TRUE, outcome |-> TimeoutRejection]}

\* C14: the consensus summary enumerates exactly the agents whose turns succeeded,
\* with their recorded text, in the order attempted.  For every turn the driver
\* awaits and every way it can end: an agent whose call failed or timed out gets
\* no entry; an agent whose call returned a reply gets the entry [agent, reply]
\* at the end of the list; and the overlay advances past the agent either way,
\* the summary being written when currentIndex reaches the end.
C14_ConsensusSummary ==
    (awaiting = "consensus" /\ consensusMode.active) =>
        \A i \in DOMAIN inflight, u \in RandDraws :
            \A e \in TurnEndings(inflight[i]) :
                LET after == attemptSettled(State, i, e.outcome, u)
                    last == consensusMode.currentIndex + 1 >= Len(consensusMode.agents)
                IN /\ e.failed => PositionsAfter(after) = consensusMode.responses
                   /\ e.outcome = Resolve("reply") =>
                          PositionsAfter(after) =
                              Append(consensusMode.responses,
                                     [agent |-> inflight[i], text |-> "reply"])
                   /\ after.lastSummary.emitted <=> last
                   /\ ~last =>
                          after.consensusMode.currentIndex = consensusMode.currentIndex + 1
                   /\ after.awaiting = "none"

\* ------------------------------------------------------------------ C15
OverlayActive == roundtableMode.active \/ consensusMode.active

\* C15: at most one overlay is active at a time: the roundtable and the consensus
\* overlay are never both active, and a /roundtable or /consensus command sent
\* while an overlay is active is refused: it leaves the overlays, the store and
\* the drivers' timers as they were.
C15_CommandRefused ==
    (lastStep' \in {"RoundtableCommand", "ConsensusCommand"} /\ OverlayActive) =>
        /\ roundtableMode' = roundtableMode
        /\ consensusMode' = consensusMode
        /\ messages' = messages
        /\ driverTimers' = driverTimers

C15_OneOverlay ==
    /\ [](~(roundtableMode.active /\ consensusMode.active))
    /\ [][C15_CommandRefused]_vars

\* ------------------------------------------------------------------ C16
\* C16: normal auto-scheduling is suspended while an overlay is active: no auto
\* timer is armed then, no turn started by the auto timer begins then, and after
\* an attempt settled the timer is armed only if conversationActive holds and no
\* overlay is active.  (The server has no paused field.)
C16_NoTimerInOverlay == OverlayActive => ~TimerArmed

C16_NoAutoTurnInOverlay ==
    ~(lastStep = "TimerFires" /\ triggerResult = "acquired" /\ OverlayActive)

C16_RearmOutsideOverlay ==
    (lastStep \in {"ResponseSettles", "TimeoutFires"} /\ TimerArmed) =>
        (conversationActive /\ ~OverlayActive)

C16_AutoSuspended ==
    /\ C16_NoTimerInOverlay
    /\ C16_NoAutoTurnInOverlay
    /\ C16_RearmOutsideOverlay

\* ------------------------------------------------------------------ C17
\* C17: pausing suspends the turns the timer drives and resuming re-arms the
\* timer.  The claim gives the server a pause command and a resume command: each
\* is handled, and right after the pause command no auto timer is armed.
C17_PauseSuspends ==
    /\ lastStep = "PauseCommand" => (commandResult = "handled" /\ ~TimerArmed)
    /\ lastStep = "ResumeCommand" => commandResult = "handled"

\* ------------------------------------------------------------------ C18
\* A /focus command that was carried out: the notice and then the question are
\* appended, one 500 ms timer is set for a registered agent, no attempt starts yet.
C18_CommandAsks ==
    (lastStep' = "FocusCommand" /\ commandResult' = "handled") =>
        /\ nextSeq' = (nextSeq + 2) % SeqMod
        /\ Last(messages') =
               [sender |-> "Human", content |-> "human", seq |-> (nextSeq + 1) % SeqMod]
        /\ \E a \in Range(agents) :
               focusTimers' = [focusTimers EXCEPT ![a] = @ + 1]
        /\ inflight' = inflight

\* The claim as stated: the deferred trigger of every /focus command starts an
\* attempt of the named agent, whatever is armed or in flight at that moment.
C18_TriggerAlwaysAttempts ==
    lastStep' = "FocusFires" =>
        \E a \in Range(agents) :
            /\ focusTimers' = [focusTimers EXCEPT ![a] = @ - 1]
            /\ triggerResult' = "acquired"
            /\ inflight' = Append(inflight, a)

C18_TriggerAttempts ==
    lastStep' = "FocusFires" =>
        \E a \in Range(agents) :
            /\ focusTimers' = [focusTimers EXCEPT ![a] = @ - 1]
            /\ IF isGenerating
               THEN /\ triggerResult' = "dropped"
                    /\ UNCHANGED <<inflight, messages, nextSeq, isGenerating, typingAgents,
                                   timers, autoConversationTimer>>
               ELSE IF Len(agents) > 1 /\ LastSender(messages) = a
               THEN /\ triggerResult' = "skipped"
                    /\ UNCHANGED <<inflight, messages, isGenerating>>
                    /\ conversationActive => TimerArmed'
               ELSE /\ triggerResult' = "acquired"
                    /\ inflight' = Append(inflight, a)
                    /\ isGenerating'
                    /\ UNCHANGED <<messages, timers, autoConversationTimer>>

CommandFrame ==
    <<messages, nextSeq, conversationActive, isGenerating, typingAgents,
      autoConversationTimer, timers, inflight, focusTimers, roundtableMode,
      consensusMode, driverTimers, awaiting>>

\* C19: a /focus command that names an identifier which is not registered is
\* answered with the unknown-agent failure and changes no state: no message, no
\* attempt, no timer, no overlay field.
C19_Refused ==
    \A name \in FocusNames \ Range(agents), question \in Questions :
        handleFocusCommand(State, name, question)
            = [State EXCEPT !.commandResult = "unknownAgent"]

C20_FocusKeepsOverlay ==
    [][(\/ lastStep' \in {"FocusCommand", "FocusFires"}
        \/ lastStep' \in {"ResponseSettles", "TimeoutFires"} /\ awaiting = "none") =>
           UNCHANGED <<roundtableMode, consensusMode>>]_vars

\* The deferred trigger of a /focus command started an attempt between two turns
\* of a roundtable.
C20_Witness ==
    /\ lastStep = "FocusFires"
    /\ triggerResult = "acquired"
    /\ roundtableMode.active
    /\ roundtableMode.currentIndex > 0
    /\ awaiting = "none"

\* ------------------------------------------------------------------ C21
\* C21: right after an explicit stop no auto timer is armed, conversationActive
\* is false and the set of typing agents is empty.
C21_StopClears ==
    lastStep = "Stop" =>
        /\ ~TimerArmed
        /\ ~conversationActive
        /\ typingAgents = {}

\* The parts of C21 that stop() does establish: no armed timer, conversation off.
C21_StopHalts ==
    lastStep = "Stop" => ~TimerArmed /\ ~conversationActive

\* ------------------------------------------------------------------ C22
\* C22: an append of something that is not a ChatMessage is rejected without
\* mutating anything: the store, the per-agent histories and the idle-save timer
\* stay as they were and no newMessage is broadcast.
C22_MalformedRejected ==
    /\ [](\A m \in Malformed : addMessage(State, m) = State)
    /\ [][lastStep' = "InvalidAppend" =>
             /\ UNCHANGED <<messages, nextSeq, histories, saveTimer, saveTimers>>
             /\ \A i \in DOMAIN emitted' : emitted'[i].event # "newMessage"]_vars

\* A malformed append was rejected while the store and the histories held
\* messages and the idle-save timer was pending.
C22_Witness ==
    /\ lastStep = "InvalidAppend"
    /\ Len(messages) = maxHistory
    /\ \E a \in DOMAIN histories : Len(histories[a]) > 0
    /\ saveTimers # {}

\* ------------------------------------------------------------------ C23
\* C23: registering an agent whose capability is unavailable is a no-op that does
\* not stop the start: the registry stays as it was and that agent is never
\* selected to speak; an available agent is added under its identifier.
C23_Registration ==
    /\ \A a \in AgentNames : addAgent(agents, a, FALSE) = agents
    /\ phase # "constructed" =>
          /\ Range(agents) = available
          /\ \A i \in DOMAIN inflight : inflight[i] \in available
          /\ typingAgents \subseteq available
          /\ \A i \in DOMAIN messages :
                messages[i].sender \in available \cup {"System", "Human"}

\* Gemini could not be initialised, the two others were registered and one of
\* them has spoken while the other's attempt is in flight.
C23_Witness ==
    /\ available = {"Llama", "Qwen"}
    /\ Len(agents) = 2
    /\ Len(inflight) > 0
    /\ \E i \in DOMAIN messages : messages[i].sender \in available

\* ------------------------------------------------------------------ C24
\* What a /role command leaves alone: everything but the role table.
RoleFrame ==
    <<phase, agents, available, initTimer, messages, nextSeq, conversationActive,
      isGenerating, typingAgents, autoConversationTimer, timers, inflight,
      abandonedCalls, focusTimers, roundtableMode, consensusMode, driverTimers,
      awaiting, histories, saveTimer, saveTimers, files, exitCode>>

C25_DebouncedSave ==
    /\ [](/\ Cardinality(saveTimers) <= 1
          /\ \A t \in saveTimers : t.id = saveTimer /\ t.armedAt = nextSeq)
    /\ [][/\ nextSeq' # nextSeq =>
                saveTimers' = {[id |-> saveTimer', armedAt |-> nextSeq']}
          /\ lastStep' = "SaveTimerFires" =>
                /\ UNCHANGED <<messages, nextSeq>>
                /\ saveTimers' = {}
                /\ files'[DumpFile] = files[DumpFile]
                /\ files'[LogFile] =
                      IF saveFailed' THEN files[LogFile]
                      ELSE [exists |-> TRUE,
                            data |-> JSONstringify(Snapshot(messages))]]_vars

\* The idle-save timer fired after the store had filled up and evicted, and the
\* snapshot of the whole store was written over an earlier one.
C25_Witness ==
    /\ lastStep = "SaveTimerFires"
    /\ ~saveFailed
    /\ Len(messages) = maxHistory
    /\ messages[1].sender # "System"
    /\ files[LogFile].exists
    /\ Len(files[LogFile].data) = maxHistory

\* ------------------------------------------------------------------ C26
\* C26: the save of a graceful shutdown writes the snapshot of the whole store to
\* the normal snapshot file and leaves the crash dump alone; an exception that
\* nothing caught writes the snapshot to the crash dump only, leaves the normal
\* file as it was and ends the process (a write that throws leaves its file as
\* it was).
C26_SnapshotTargets ==
    [][/\ lastStep' = "IoClosed" =>
             /\ files'[DumpFile] = files[DumpFile]
             /\ files'[LogFile] =
                   IF saveFailed' THEN files[LogFile]
                   ELSE [exists |-> TRUE,
                         data |-> JSONstringify(Snapshot(messages))]
       /\ lastStep' = "Crash" =>
             /\ files'[LogFile] = files[LogFile]
             /\ files'[DumpFile] =
                   IF saveFailed' THEN files[DumpFile]
                   ELSE [exists |-> TRUE,
                         data |-> JSONstringify(Snapshot(messages))]
             /\ phase' = "exited"]_vars

\* The shutdown had saved the store to the normal file; a message was appended
\* while the HTTP server was closing, and then an exception wrote the crash dump,
\* which differs from the normal file.
C26_Witness ==
    /\ lastStep = "Crash"
    /\ ~saveFailed
    /\ files[LogFile].exists
    /\ files[DumpFile].exists
    /\ Len(files[LogFile].data) > 0
    /\ files[DumpFile].data # files[LogFile].data

\* ------------------------------------------------------------------ C27
\* C27: after stop() the process eventually exits; it exits with code 0 exactly
\* when the HTTP server closed without an error, with code 1 when the forced exit
\* of the grace timeout ends it, and a failure to start exits with code 1.
C27_Exits ==
    /\ (phase = "stopping") ~> (phase = "exited")
    /\ [](phase = "exited" <=> exitCode # <<>>)
    /\ [](exitCode = <<0>> => lastStep = "ServerClosed")
    /\ [][/\ lastStep' = "ServerClosed" => exitCode' = <<0>>
          /\ lastStep' \in {"ForceExit", "ServerCloseFails"} => exitCode' = <<1>>
          /\ lastStep' \in {"StartFails", "ListenError"} => exitCode' = <<1>>]_vars

\* The shutdown ran with an attempt in flight, saved the store and ended with the
\* HTTP server closed: exit code 0.
C27_Witness ==
    /\ lastStep = "ServerClosed"
    /\ phase = "exited"
    /\ exitCode = <<0>>
    /\ files[LogFile].exists
    /\ Len(inflight) > 0

Broadcasts(events) ==
    SelectSeq(events, LAMBDA e : e.to = "all" /\ e.event = "newMessage")

\* C30: every accepted append produces exactly one newMessage broadcast, which
\* carries that message, and the broadcasts of a step follow the order of its
\* appends: outside stop(), whose notice is broadcast without an append, the
\* newMessage broadcasts of a step are the records of the messages it appended.
C30_BroadcastPerAppend ==
    [][LET k == (nextSeq' - nextSeq + SeqMod) % SeqMod
           news == Broadcasts(emitted')
       IN /\ k <= Len(messages')
          /\ lastStep' # "Stop" =>
                /\ Len(news) = k
                /\ \A i \in 1..k :
                      news[i].data = toJSON(messages'[Len(messages') - k + i])
          /\ lastStep' = "Stop" => k = 0]_vars

\* An agent's reply was appended to a full store and broadcast, followed by the
\* typing status.
C30_Witness ==
    /\ lastStep = "ResponseSettles"
    /\ Len(messages) = maxHistory
    /\ Len(Broadcasts(emitted)) = 1
    /\ Broadcasts(emitted)[1].data.sender \in AgentNames
    /\ Broadcasts(emitted)[1].data = toJSON(Last(messages))
    /\ Len(emitted) > 1

\* ------------------------------------------------------------------ C31
\* What the continuation of attempt i does when the call fulfilled with a text
\* that is empty after trim().
BlankSettles(i, u) == raceSettled(State, i, Resolve(""), u)

\* C31: a call that fulfils with an empty or whitespace-only text appends no
\* message, neither the agent's nor a System one, and broadcasts none; it
\* releases the lock, and it arms the auto timer when conversationActive.
C31_BlankReply ==
    \A i \in DOMAIN inflight, u \in RandDraws :
        LET after == BlankSettles(i, u)
        IN /\ after.messages = messages
           /\ after.nextSeq = nextSeq
           /\ after.histories = histories
           /\ Broadcasts(after.emitted) = <<>>
           /\ ~after.lastError.caught
           /\ ~after.isGenerating
           /\ after.inflight = RemoveAt(inflight, i)
           /\ inflight[i] \notin after.typingAgents
           /\ after.conversationActive = conversationActive
           /\ conversationActive <=>
                 \E t \in after.timers :
                    /\ t.id = after.autoConversationTimer
                    /\ t.wait >= MinDelay

\* An attempt has just settled without an append and without a caught error: the
\* call had fulfilled with a blank text.  The lock is free and the timer armed.
C31_Witness ==
    /\ lastStep = "ResponseSettles"
    /\ Broadcasts(emitted) = <<>>
    /\ ~lastError.caught
    /\ Len(messages) > 0
    /\ ~isGenerating
    /\ conversationActive
    /\ TimerArmed

\* ------------------------------------------------------------------ C32
\* C32 is about a timer that fires while conversationActive is false or no agent
\* is registered.  No such timer exists: a timer is armed only while
\* conversationActive with an agent registered, the registry is fixed, and
\* stop(), the one place that resets conversationActive, clears the timer.
C32_NoTimerWhenIdle ==
    timers # {} => conversationActive /\ Len(agents) > 0

\* What the callback would do in such a state, were it to run: nothing.
C32_IdleCallback ==
    \A r \in IndexDraws, u \in RandDraws :
        LET idle == [State EXCEPT !.conversationActive = FALSE]
        IN timerCallback(idle, r, u) = idle

\* ------------------------------------------------------------------ C33
\* C33: an arming without a forced delay waits a whole number of milliseconds
\* between MinDelay and MaxDelay, whatever Math.random() returns.
C33_WaitInRange ==
    /\ \A num \in 0..(DrawDen - 1) :
          RandomWaitAt(num, DrawDen) \in MinDelay..MaxDelay
    /\ \A u \in RandDraws : RandomWait(u) \in MinDelay..MaxDelay
    /\ \A t \in timers : t.wait \in MinDelay..MaxDelay

\* A draw close to 1 armed the timer: the wait is cut to a whole number just
\* below MaxDelay.
C33_Witness ==
    /\ lastStep = "DrawWait"
    /\ \E t \in timers :
          /\ t.id = autoConversationTimer
          /\ t.wait > MaxDelay - 100
          /\ t.wait < MaxDelay

\* ------------------------------------------------------------------ C34
\* The auto timer of state s is armed and waits w milliseconds.
ArmedFor(s, w) ==
    /\ Cardinality(s.timers) = 1
    /\ \A t \in s.timers : t.id = s.autoConversationTimer /\ t.wait = w

\* A trigger for a name that is not registered, in the state at hand: no caller
\* under src/ passes one, so the trigger is applied to it here.
C34_InvalidAgent ==
    \A u \in RandDraws :
        ~isGenerating =>
            LET after == triggerAIResponse(State, "Nobody", u)
            IN /\ after.triggerResult = "invalid"
               /\ after.messages = messages
               /\ ~after.isGenerating
               /\ after.inflight = inflight
               /\ IF conversationActive /\ Len(agents) > 0
                  THEN ArmedFor(after, 1000) ELSE after.timers = {}

\* C34: a forced delay overrides the random draw for one arming: the arming after
\* a same-speaker skip waits 100 ms, after a trigger for an invalid agent
\* 1000 ms, after a timer that fired during a generation 2000 ms; none of the
\* three acquires the lock or appends a message; and the arming at the end of a
\* generation attempt waits a random time again.
C34_ForcedOnce ==
    /\ [](C34_InvalidAgent)
    /\ [][/\ triggerResult' = "skipped" =>
                /\ UNCHANGED <<messages, nextSeq, isGenerating, inflight>>
                /\ IF conversationActive' THEN ArmedFor(State', 100) ELSE timers' = {}
          /\ (lastStep' = "TimerFires" /\ isGenerating) =>
                /\ UNCHANGED <<messages, nextSeq, isGenerating, inflight>>
                /\ triggerResult' = "none"
                /\ IF conversationActive THEN ArmedFor(State', 2000) ELSE timers' = {}
          /\ lastStep' \in {"ResponseSettles", "TimeoutFires"} =>
                IF conversationActive
                THEN \E u \in RandDraws : ArmedFor(State', RandomWait(u))
                ELSE timers' = timers]_vars

\* The auto timer fired while the attempt of a /focus command was in flight and
\* was armed again for 2000 ms.
C34_Witness ==
    /\ lastStep = "TimerFires"
    /\ isGenerating
    /\ Len(inflight) = 1
    /\ ArmedFor(State, 2000)

\* ------------------------------------------------------------------ C35
\* The normal snapshot file holds the record of every message of the store.
LogHoldsStore ==
    \A i \in DOMAIN messages :
        \E j \in DOMAIN files[LogFile].data :
            parseObject(files[LogFile].data[j]) = toJSON(messages[i])

\* C35: when the process has exited with code 0 after a graceful stop, the normal
\* snapshot file holds every message that is in the store at the exit, a message
\* appended by a generation that was in flight at stop() included.
C35_FinalSnapshot ==
    (phase = "exited" /\ exitCode = <<0>>) =>
        files[LogFile].exists /\ LogHoldsStore

\* The same for the shutdowns whose save did not throw.
C35_WrittenSnapshot ==
    (phase = "exited" /\ exitCode = <<0>> /\ files[LogFile].exists) => LogHoldsStore

\* ------------------------------------------------------------------ C36
\* C36: the conversation never stalls: between two events, if conversationActive
\* is true and an agent is registered, a generation is in flight or the auto
\* timer is armed.
C36_NoStall ==
    (conversationActive /\ Len(agents) > 0) => (isGenerating \/ TimerArmed)

\* A human message arrived during a generation: its trigger was dropped and the
\* timer it cleared is not armed again; only the generation in flight keeps the
\* conversation going.
C36_Witness ==
    /\ lastStep = "HumanInput"
    /\ triggerResult = "dropped"
    /\ conversationActive
    /\ isGenerating
    /\ ~TimerArmed
    /\ timers = {}

\* ------------------------------------------------------------------ C37
\* C37: at most one auto-conversation timer is pending at any time, and it is the
\* one this.autoConversationTimer refers to; a step that arms a timer leaves no
\* other pending, so that no two timer-driven turns are ever scheduled at once.
C37_OneTimer ==
    /\ [](/\ Cardinality(timers) <= 1
          /\ \A t \in timers : t.id = autoConversationTimer)
    /\ [][\A t \in timers' : t \notin timers => timers' = {t}]_vars

\* The trigger of a /focus command skipped the last speaker while the auto timer
\* was armed with its random wait: the skip armed the timer for 100 ms and no
\* other timer is pending.
C37_Witness ==
    /\ lastStep = "FocusFires"
    /\ triggerResult = "skipped"
    /\ conversationActive
    /\ ArmedFor(State, 100)

\* ------------------------------------------------------------------ C38
\* C38: between events the typing set holds at most one agent, it is non-empty
\* exactly when isGenerating is true, and then its one element is the agent
\* whose attempt holds the lock.
C38_TypingIsLockHolder ==
    /\ Cardinality(typingAgents) <= 1
    /\ (typingAgents # {}) <=> isGenerating
    /\ isGenerating => typingAgents = {inflight[Len(inflight)]}

\* A second agent holds the lock after another agent's reply was appended: the
\* typing set passed from the first agent to the second.
C38_Witness ==
    /\ isGenerating
    /\ Len(inflight) = 1
    /\ typingAgents = {inflight[1]}
    /\ Len(messages) > 0
    /\ Last(messages).sender \in Range(agents)
    /\ Last(messages).sender # inflight[1]

\* ------------------------------------------------------------------ C39
\* C39: with at least 2 agents registered, the store never holds two adjacent
\* messages sent by the same agent, whatever the interleaving of timer-driven
\* turns, human-triggered turns, focused triggers, timeouts and evictions.
C39_NoAdjacentRepeat ==
    Len(agents) >= 2 =>
        \A k \in 1..(Len(messages) - 1) :
            messages[k].sender \in Range(agents)
                => messages[k + 1].sender # messages[k].sender

\* A reply was appended right after another agent's message, in a full store.
C39_Witness ==
    /\ lastStep = "ResponseSettles"
    /\ Len(agents) >= 2
    /\ Len(messages) = maxHistory
    /\ messages[Len(messages) - 1].sender \in Range(agents)
    /\ messages[Len(messages)].sender \in Range(agents)
    /\ messages[Len(messages)].sender # messages[Len(messages) - 1].sender

\* ------------------------------------------------------------------ C40
\* C40: when stop() ran while a generation was in flight, the settling of that
\* generation releases the lock, leaves no auto timer pending and starts no
\* other generation; and from stop() on conversationActive is false after every
\* step that is not a human message.
AfterStop == phase \in {"stopping", "closing", "exited"}

C40_SettleAfterStop ==
    /\ [][(AfterStop /\ lastStep' \in {"ResponseSettles", "TimeoutFires"}) =>
             /\ isGenerating /\ ~isGenerating'
             /\ inflight' = <<>>
             /\ typingAgents' = {}
             /\ timers' = {}
             /\ ~TimerArmed']_vars
    /\ [][(AfterStop /\ lastStep' # "HumanInput") => ~conversationActive']_vars

\* The generation that was in flight when stop() ran has settled: the lock is
\* free, no timer is pending and the conversation is inactive.
C40_Witness ==
    /\ phase = "stopping"
    /\ lastStep \in {"ResponseSettles", "TimeoutFires"}
    /\ ~isGenerating
    /\ inflight = <<>>
    /\ timers = {}
    /\ ~conversationActive

====
